---- MODULE Spec2Model ----
(***************************************************************************)
(* A model of SSINS/incoherent_noise_spectrum.py (class INS: __init__,     *)
(* mean_subtract, save, _read) and of the per-shape aggregation loop of    *)
(* Scripts/Event_Brightness.py.                                            *)
(*                                                                         *)
(* Arrays have the shape (NT, 1, NF, NP) of INS.data; an array is a record *)
(* [kind, val, mask] over Idx, where kind tells what Python object it is:  *)
(*   "masked"  a numpy MaskedArray that carries a full boolean mask array, *)
(*   "nomask"  a MaskedArray whose mask is numpy.ma.nomask (mask.shape=()),*)
(*   "ndarray" a plain numpy array (it has no .mask attribute).            *)
(* For the last two kinds the field mask is the all-FALSE array that       *)
(* numpy.ma.getmaskarray would return.  Reals are kept exact: an element   *)
(* of a mean-subtracted array is sgn * sqrt((num/den) / C), C = 4/pi - 1.  *)
(* An attribute of the object is <<>> when unset and <<v>> when set.       *)
(***************************************************************************)
EXTENDS Integers, Sequences, FiniteSets, TLC

\* Bounds of the model.
NT == 2
NF == 2
NP == 1
MaxVal == 1
MaxN == 1
MaxOrder == 1
MaxCalls == 2
MaxTripCalls == 3
MaxEvents == 2
NObs == 2

\* The significance threshold the aggregation script passes on (--sig, default=5)
SigDefault == 5

VARIABLES env, obj, fs, saved, last, script

vars == <<env, obj, fs, saved, last, script>>

Times == 1..NT
Chans == 1..NF
Pols == 1..NP
Idx == Times \X Chans \X Pols

Unset == <<>>
Some(v) == <<v>>
IsSet(o) == Len(o) > 0
Get(o) == o[1]

----------------------------------------------------------------------------
(* Exact arithmetic *)

RECURSIVE Gcd(_, _)
Gcd(a, b) == IF b = 0 THEN a ELSE Gcd(b, a % b)

Zero == [sgn |-> 0, num |-> 0, den |-> 1]
NaN == [sgn |-> 0, num |-> 0, den |-> 0]

\* (rn / rd) * sqrt(n / C) for rd > 0, n >= 0, as sgn * sqrt((num/den) / C)
Scale(rn, rd, n) ==
    IF rn = 0 \/ n = 0 THEN Zero
    ELSE LET n2 == rn * rn * n
             d2 == rd * rd
             g == Gcd(n2, d2)
         IN [sgn |-> IF rn > 0 THEN 1 ELSE -1, num |-> n2 \div g, den |-> d2 \div g]

RECURSIVE SumTo(_, _)
SumTo(g, n) == IF n = 0 THEN 0 ELSE g[n] + SumTo(g, n - 1)

----------------------------------------------------------------------------
(* Name resolution: a name that is neither a local of the function nor a  *)
(* global of the module raises NameError when it is read or written to.   *)

ModuleGlobals == {"np", "erfcinv", "os", "warnings", "pickle", "UVFlag", "INS"}
MeanSubtractLocals == {"self", "f", "C", "MS", "x", "i", "y", "good_chans", "good_data",
                       "unique_masks", "mask_inv", "k", "chans", "coeff", "file", "mu"}
ReadLocals == {"self", "read_paths", "arg", "attr"}
NameDefined(name, locals) == name \in locals \cup ModuleGlobals

----------------------------------------------------------------------------
(* mean_subtract, order 0 *)

\* data[:, :, f].mean(axis=0): the sum and the number of the unmasked samples
ChanSum(a, f, p) == SumTo([t \in Times |-> IF a.mask[<<t, f, p>>] THEN 0 ELSE a.val[<<t, f, p>>]], NT)
ChanCount(a, f, p) == Cardinality({t \in Times : ~a.mask[<<t, f, p>>]})

\* A division that masks only its domain (mean = 0) and forgets the mask of data
RatioMaskedNoData(a, ix) ==
    /\ a.kind # "ndarray"
    /\ \/ ChanCount(a, ix[2], ix[3]) = 0
       \/ ChanSum(a, ix[2], ix[3]) = 0

\* The mask of data / mean: the operands' masks and the division's domain (mean = 0).
\* A plain ndarray divides without a domain check.
RatioMasked(a, ix) ==
    /\ a.kind # "ndarray"
    /\ \/ a.mask[ix]
       \/ ChanCount(a, ix[2], ix[3]) = 0
       \/ ChanSum(a, ix[2], ix[3]) = 0

\* (data / mean) * sqrt(Nbls / C): the expression of line 97 without its "- 1"
ElementNoSubtract(a, nbls, ix) ==
    LET s == ChanSum(a, ix[2], ix[3])
        c == ChanCount(a, ix[2], ix[3])
    IN IF s = 0 THEN NaN
       ELSE Scale(a.val[ix] * c, s, nbls.val[ix])

\* (data / mean - 1) * sqrt(Nbls / C) at one unmasked element; mean = sum / count, so
\* data / mean - 1 = (data * count - sum) / sum.  An ndarray's 0 / 0 is nan.
Element0(a, nbls, ix) ==
    LET s == ChanSum(a, ix[2], ix[3])
        c == ChanCount(a, ix[2], ix[3])
    IN IF s = 0 THEN NaN
       ELSE Scale(a.val[ix] * c - s, s, nbls.val[ix])

MeanSubtract0(self) ==
    LET a == Get(self.data)
        nbls == Get(self.Nbls)
        m == [ix \in Idx |-> RatioMasked(a, ix) \/ nbls.mask[ix]]
    IN [kind |-> IF a.kind = "ndarray" /\ nbls.kind = "ndarray" THEN "ndarray" ELSE "masked",
        val |-> [ix \in Idx |-> IF m[ix] THEN Zero ELSE Element0(a, nbls, ix)],
        mask |-> m]

\* The outcome of a call of mean_subtract: the exception raised ("none": it returned),
\* the array returned, and what the order > 0 path did: per polarization reached, the
\* good channels, the unique masks, mask_inv and the fits made (trace), and how often
\* line 121 assigned each channel's output (writes).
NoWrites == [c \in Chans \X Pols |-> 0]
Returned(ms) == [raised |-> "none", ret |-> Some(ms), trace |-> <<>>, writes |-> NoWrites]
Raised(exc) == [raised |-> exc, ret |-> Unset, trace |-> <<>>, writes |-> NoWrites]

----------------------------------------------------------------------------
(* mean_subtract, order > 0 *)

\* np.zeros_like(self.data): a masked array's mask is copied with it
ZerosLike(a) == [kind |-> a.kind, val |-> [ix \in Idx |-> Zero], mask |-> a.mask]

\* x = np.arange(1, self.data.shape[0] + 1)
XArr == [t \in Times |-> t]

\* y.mask[:, c], the mask of one channel over time
ColMask(a, f, p) == [t \in Times |-> a.mask[<<t, f, p>>]]

RECURSIVE SortedSeq(_)
SortedSeq(S) ==
    IF S = {} THEN <<>>
    ELSE LET m == CHOOSE c \in S : \A d \in S : c <= d
         IN <<m>> \o SortedSeq(S \ {m})

\* good_chans = np.where(np.logical_not(np.all(y.mask, axis=0)))[0]
GoodChans(a, p) == SortedSeq({f \in Chans : ~(\A t \in Times : a.mask[<<t, f, p>>])})

\* np.unique(..., axis=1) sorts the distinct columns, the first row most significant
LexLess(c, d) == \E t \in Times : /\ \A s \in 1..(t - 1) : c[s] = d[s]
                                  /\ ~c[t] /\ d[t]

RECURSIVE SortCols(_)
SortCols(S) ==
    IF S = {} THEN <<>>
    ELSE LET m == CHOOSE c \in S : \A d \in S : d = c \/ LexLess(c, d)
         IN <<m>> \o SortCols(S \ {m})

UniqueMasks(a, p, good) == SortCols({ColMask(a, good[j], p) : j \in 1..Len(good)})

\* return_inverse: for each good channel the (1-based) place of its mask in unique_masks
MaskInv(a, p, good, unique) ==
    [j \in 1..Len(good) |-> CHOOSE k \in 1..Len(unique) : unique[k] = ColMask(a, good[j], p)]

\* np.ma.polyfit(x, good_data[:, chans], order): a row is left out when any channel of
\* the group is masked there (mask_rows); each channel is then fitted by least squares
\* over the rows kept.  The coefficients of a channel are kept as the least squares
\* problem they solve: abscissae, ordinates and degree.
PolyFit(a, p, good, chans, order) ==
    LET rows == {t \in Times : \A j \in chans : ~a.mask[<<t, good[j], p>>]}
    IN [j \in chans |-> [xs |-> [t \in rows |-> XArr[t]],
                         ys |-> [t \in rows |-> a.val[<<t, good[j], p>>]],
                         deg |-> order]]

\* mu = sum_k outer(x ** (order - k), coeff[k]): the fitted polynomial at x[t]
Mu(coeff, j, t) == [fit |-> coeff[j], at |-> XArr[t]]

\* Line 121 for one group: MS[:, 0, good_chans[chans], i] = (good_data / mu - 1) * sqrt(Nbls / C)
WriteGroup(st, a, nbls, p, good, chans, coeff) ==
    LET fs_ == {good[j] : j \in chans}
        jOf(f) == CHOOSE j \in chans : good[j] = f
    IN [st EXCEPT
          !.ms = [kind |-> @.kind,
                  val |-> [ix \in Idx |->
                             IF ix[3] = p /\ ix[2] \in fs_
                             THEN [data |-> a.val[ix], mu |-> Mu(coeff, jOf(ix[2]), ix[1]),
                                   n |-> nbls.val[ix]]
                             ELSE @.val[ix]],
                  mask |-> [ix \in Idx |->
                             IF ix[3] = p /\ ix[2] \in fs_
                             THEN a.mask[ix] \/ nbls.mask[ix]
                             ELSE @.mask[ix]]],
          !.writes = [c \in Chans \X Pols |->
                             IF c[2] = p /\ c[1] \in fs_ THEN @[c] + 1 ELSE @[c]]]

\* for k in range(unique_masks.shape[1]): lines 111-121.  Reading coeff_write at line
\* 115 raises NameError: it is no local of mean_subtract and no global of the module.
RECURSIVE GroupLoop(_, _, _, _, _, _, _)
GroupLoop(st, self, p, good, unique, inv, k) ==
    IF k > Len(unique) THEN st
    ELSE LET a == Get(self.data)
             chans == {j \in 1..Len(good) : inv[j] = k}
             coeff == PolyFit(a, p, good, chans, Get(self.order))
             fitted == [st EXCEPT !.trace[Len(st.trace)].fits = Append(@, coeff)]
         IN IF ~NameDefined("coeff_write", MeanSubtractLocals)
            THEN [fitted EXCEPT !.raised = "NameError"]
            ELSE GroupLoop(WriteGroup(fitted, a, Get(self.Nbls), p, good, chans, coeff),
                           self, p, good, unique, inv, k + 1)

\* for i in range(self.data.shape[-1]): lines 102-121.  uniqueEmptyOk tells whether the
\* numpy in use accepts np.unique(..., axis=1) of an array with no columns (a
\* polarization with no good channel) or raises ValueError on its reshape.
RECURSIVE PolLoop(_, _, _, _)
PolLoop(st, self, e, p) ==
    IF p > NP \/ st.raised # "none" THEN st
    ELSE LET a == Get(self.data)
             good == GoodChans(a, p)
         IN IF Len(good) = 0 /\ ~e.uniqueEmptyOk
            THEN [st EXCEPT !.raised = "ValueError"]
            ELSE LET unique == UniqueMasks(a, p, good)
                     inv == MaskInv(a, p, good, unique)
                     entered == [st EXCEPT !.trace = Append(@, [pol |-> p, good_chans |-> good,
                                                               unique_masks |-> unique,
                                                               mask_inv |-> inv, fits |-> <<>>])]
                 IN PolLoop(GroupLoop(entered, self, p, good, unique, inv, 1), self, e, p + 1)

MeanSubtractN(self, e) ==
    LET a == Get(self.data)
        start == [raised |-> "none", ms |-> ZerosLike(a), trace |-> <<>>, writes |-> NoWrites]
    IN IF a.kind = "ndarray" THEN Raised("AttributeError")
       ELSE IF a.kind = "nomask" THEN Raised("AxisError")
       ELSE LET st == PolLoop(start, self, e, 1)
            IN [raised |-> st.raised,
                ret |-> IF st.raised = "none" THEN Some(st.ms) ELSE Unset,
                trace |-> st.trace,
                writes |-> st.writes]

\* mean_subtract(self): reading self.data, self.Nbls or self.order of an object that
\* lacks it raises AttributeError
MeanSubtract(self, e) ==
    IF ~IsSet(self.order) THEN Raised("AttributeError")
    ELSE IF Get(self.order) = 0
         THEN IF IsSet(self.data) /\ IsSet(self.Nbls)
              THEN Returned(MeanSubtract0(self))
              ELSE Raised("AttributeError")
         ELSE IF IsSet(self.data) THEN MeanSubtractN(self, e)
              ELSE Raised("AttributeError")

----------------------------------------------------------------------------
(* Files: pickle.dump / np.save / np.load *)

AllFalse(val) == [i \in DOMAIN val |-> FALSE]

\* A dump that, like np.save, would keep the data and lose the mask
PickleDumpNoMask(v) ==
    [fmt |-> "pickle", kind |-> IF v.kind = "ndarray" THEN "ndarray" ELSE "masked",
     val |-> v.val, mask |-> AllFalse(v.val)]

\* pickle.dump(v, f): MaskedArray.__reduce__ stores the data and getmaskarray(v), so a
\* MaskedArray is loaded back with a full mask array; an ndarray is loaded back as it was
PickleDump(v) ==
    [fmt |-> "pickle", kind |-> IF v.kind = "ndarray" THEN "ndarray" ELSE "masked",
     val |-> v.val, mask |-> v.mask]

\* np.save(path, v): the .npy format holds the data only, the mask is not written
NpSave(v) == [fmt |-> "npy", kind |-> "ndarray", val |-> v.val, mask |-> AllFalse(v.val)]

\* open(path, 'wb') before anything is written
EmptyFile == [fmt |-> "empty", kind |-> "ndarray", val |-> <<>>, mask |-> <<>>]

\* np.load(path): a .npy file gives an ndarray; any other file is unpickled (the class
\* docstring: "numpy loadable binary files (pickle is used for masked arrays)")
NpLoadRaises(fsys, path) ==
    IF path \notin DOMAIN fsys.files THEN "IOError"
    ELSE IF fsys.files[path].fmt = "empty" THEN "EOFError"
    ELSE "none"

NpLoad(fsys, path) ==
    LET c == fsys.files[path]
    IN [kind |-> c.kind, val |-> c.val, mask |-> c.mask]

WriteFile(fsys, path, content) ==
    [fsys EXCEPT !.files = [q \in DOMAIN @ \cup {path} |-> IF q = path THEN content ELSE @[q]]]

Remember(sv, path, v) == [q \in DOMAIN sv \cup {path} |-> IF q = path THEN v ELSE sv[q]]

----------------------------------------------------------------------------
(* save *)

\* '%s' % sig_thresh
Str(sig) == ToString(sig)

\* '%s/arrs/%s_%s_INS_%s%s.npym' % (self.outpath, self.obs, self.flag_choice, attr, tag)
ArrPath(self, attr, tag, ext) ==
    Get(self.outpath) \o "/arrs/" \o Get(self.obs) \o "_" \o Get(self.flag_choice)
        \o "_INS_" \o attr \o tag \o ext

\* '%s/metadata/%s_%s.npy' % (self.outpath, self.obs, attr)
MetaPath(self, attr) ==
    Get(self.outpath) \o "/metadata/" \o Get(self.obs) \o "_" \o attr \o ".npy"

\* Lines 134-140: the tag, and the first event list the object lacks (getattr raises)
SubTags == <<"match", "chisq", "samp_thresh">>
EventsAttr(subtag) == subtag \o "_events"

RECURSIVE TagLoop(_, _, _)
TagLoop(self, tag, n) ==
    IF n > Len(SubTags) THEN tag
    ELSE TagLoop(self,
                 IF Len(Get(self[EventsAttr(SubTags[n])])) > 0 THEN tag \o "_" \o SubTags[n] ELSE tag,
                 n + 1)

SaveTag(self, sig) == TagLoop(self, IF IsSet(sig) THEN "_" \o Str(Get(sig)) ELSE "", 1)

\* Lines 142-144
MakeDirs(self, fsys) ==
    [fsys EXCEPT !.dirs = @ \cup {Get(self.outpath) \o "/arrs", Get(self.outpath) \o "/metadata"}]

\* Lines 146-149: open(..., 'wb') creates the file, then getattr(self, attr) is read
RECURSIVE DumpLoop(_, _, _, _)
DumpLoop(st, self, tag, attrs) ==
    IF attrs = <<>> \/ st.raised # "none" THEN st
    ELSE LET attr == Head(attrs)
             path == ArrPath(self, attr, tag, ".npym")
         IN IF ~IsSet(self[attr])
            THEN [st EXCEPT !.raised = "AttributeError",
                            !.fs = WriteFile(@, path, EmptyFile),
                            !.saved = Remember(@, path, Unset)]
            ELSE DumpLoop([st EXCEPT !.fs = WriteFile(@, path, PickleDump(Get(self[attr]))),
                                     !.saved = Remember(@, path, self[attr]),
                                     !.written = @ \cup {path}],
                          self, tag, Tail(attrs))

\* Lines 150-153: getattr(self, attr) is read before np.save opens the file
RECURSIVE HistLoop(_, _, _, _)
HistLoop(st, self, tag, attrs) ==
    IF attrs = <<>> \/ st.raised # "none" THEN st
    ELSE LET attr == Head(attrs)
             path == ArrPath(self, attr, tag, ".npy")
         IN IF ~IsSet(self[attr])
            THEN [st EXCEPT !.raised = "AttributeError"]
            ELSE HistLoop([st EXCEPT !.fs = WriteFile(@, path, NpSave(Get(self[attr]))),
                                     !.saved = Remember(@, path, self[attr]),
                                     !.written = @ \cup {path}],
                          self, tag, Tail(attrs))

\* Lines 155-158
RECURSIVE MetaLoop(_, _, _)
MetaLoop(st, self, attrs) ==
    IF attrs = <<>> \/ st.raised # "none" THEN st
    ELSE LET attr == Head(attrs)
             path == MetaPath(self, attr)
         IN MetaLoop(IF IsSet(self[attr])
                     THEN [st EXCEPT !.fs = WriteFile(@, path, NpSave(Get(self[attr]))),
                                     !.saved = Remember(@, path, self[attr]),
                                     !.written = @ \cup {path}]
                     ELSE st,
                     self, Tail(attrs))

SaveRun(self, fsys, sv, sig) ==
    LET start == [raised |-> "none", fs |-> fsys, saved |-> sv, written |-> {}, tag |-> ""]
    IN IF \E n \in 1..Len(SubTags) : ~IsSet(self[EventsAttr(SubTags[n])])
       THEN [start EXCEPT !.raised = "AttributeError"]
       ELSE LET tag == SaveTag(self, sig)
                dirs == [start EXCEPT !.fs = MakeDirs(self, fsys), !.tag = tag]
                dumped == DumpLoop(dirs, self, tag, <<"data", "data_ms", "Nbls">>)
                hists == HistLoop(dumped, self, tag, <<"counts", "bins">>)
            IN MetaLoop(hists, self, <<"freq_array", "pols", "vis_units">>)

----------------------------------------------------------------------------
(* _read *)

\* Lines 170-173
RECURSIVE RequiredLoop(_, _, _, _)
RequiredLoop(st, fsys, rp, args) ==
    IF args = <<>> \/ st.raised # "none" THEN st
    ELSE LET arg == Head(args)
         IN IF arg \notin DOMAIN rp THEN [st EXCEPT !.raised = "AssertionError"]
            ELSE IF NpLoadRaises(fsys, rp[arg]) # "none"
                 THEN [st EXCEPT !.raised = NpLoadRaises(fsys, rp[arg])]
                 ELSE RequiredLoop([st EXCEPT !.self[arg] = Some(NpLoad(fsys, rp[arg])),
                                              !.assigned = @ \cup {arg}],
                                   fsys, rp, Tail(args))

\* Lines 174-175: an ndarray has no attribute mask; nomask has the shape (); the
\* assignment is to data.mask, and data is no local of _read and no global of the module
MaskCheck(st) ==
    IF st.raised # "none" THEN st
    ELSE LET d == Get(st.self.data)
         IN IF d.kind = "ndarray" THEN [st EXCEPT !.raised = "AttributeError"]
            ELSE IF d.kind = "nomask"
                 THEN IF NameDefined("data", ReadLocals)
                      THEN [st EXCEPT !.self.data = Some([d EXCEPT !.kind = "masked"])]
                      ELSE [st EXCEPT !.raised = "NameError"]
                 ELSE st

\* Lines 176-181
RECURSIVE OptionalLoop(_, _, _, _)
OptionalLoop(st, fsys, rp, attrs) ==
    IF attrs = <<>> \/ st.raised # "none" THEN st
    ELSE LET attr == Head(attrs)
         IN IF attr \notin DOMAIN rp
            THEN OptionalLoop([st EXCEPT !.warned = @ \cup {attr}], fsys, rp, Tail(attrs))
            ELSE IF NpLoadRaises(fsys, rp[attr]) # "none"
                 THEN [st EXCEPT !.raised = NpLoadRaises(fsys, rp[attr])]
                 ELSE OptionalLoop([st EXCEPT !.self[attr] = Some(NpLoad(fsys, rp[attr])),
                                              !.assigned = @ \cup {attr}],
                                   fsys, rp, Tail(attrs))

RequiredKeys == <<"data", "Nbls", "freq_array">>
OptionalKeys == <<"pols", "vis_units">>

ReadRun(self, fsys, rp) ==
    LET start == [raised |-> "none", self |-> self, warned |-> {}, assigned |-> {}]
        req == RequiredLoop(start, fsys, rp, RequiredKeys)
    IN OptionalLoop(MaskCheck(req), fsys, rp, OptionalKeys)

----------------------------------------------------------------------------
(* __init__ *)

\* Lines 62-71.  base holds the attributes the object has when UVFlag.__init__ returns;
\* same is the outcome of the identity test self.type is 'baseline', which is TRUE only
\* when the interpreter shares the two equal strings.
Construct(base, order, e, same) ==
    LET waterfall == IF Get(base.type) = "baseline" /\ same
                     THEN [base EXCEPT !.metric_array = Some("input.data_array[:, 0]"),
                                       !.weights_array = Some("not input.data_array.mask"),
                                       !.type = Some("waterfall")]
                     ELSE base
        ordered == [waterfall EXCEPT !.order = Some(order)]
        ms == MeanSubtract(ordered, e)
    IN [raised |-> ms.raised,
        self |-> IF ms.raised = "none" THEN [ordered EXCEPT !.metric_ms = ms.ret] ELSE ordered,
        ms |-> ms]

----------------------------------------------------------------------------
(* The inputs *)

\* What depends on the numpy in use
Envs == [uniqueEmptyOk : BOOLEAN]

\* An array of the shape of data, from two channels over time (-1: a masked sample):
\* the channels alternate over frequency and polarization
ColOf(ix, colA, colB) == IF (ix[2] + ix[3]) % 2 = 0 THEN colA ELSE colB

MkData(kind, colA, colB) ==
    [kind |-> kind,
     val |-> [ix \in Idx |-> IF ColOf(ix, colA, colB)[ix[1]] = -1 THEN 0
                             ELSE ColOf(ix, colA, colB)[ix[1]]],
     mask |-> [ix \in Idx |-> ColOf(ix, colA, colB)[ix[1]] = -1]]

MkCounts(nA, nB) ==
    [kind |-> "ndarray",
     val |-> [ix \in Idx |-> IF (ix[2] + ix[3]) % 2 = 0 THEN nA ELSE nB],
     mask |-> [ix \in Idx |-> FALSE]]

Mk1D(seq) == [kind |-> "ndarray", val |-> seq, mask |-> AllFalse(seq)]

Columns == [Times -> (-1)..MaxVal]
UnmaskedColumns == [Times -> 0..MaxVal]

AttrNames == {"data", "Nbls", "freq_array", "pols", "vis_units", "order", "metric_ms",
              "data_ms", "match_events", "chisq_events", "samp_thresh_events", "counts",
              "bins", "outpath", "obs", "flag_choice", "type", "metric_array",
              "weights_array"}
NoAttrs == [a \in AttrNames |-> Unset]

NoCall == [op |-> "none", n |-> 0, raised |-> "none", ms |-> Unset, paths |-> [k \in {} |-> ""],
           sig |-> Unset, tag |-> "", written |-> {}, warned |-> {}, assigned |-> {}]

NoFiles == [dirs |-> {}, files |-> [q \in {} |-> EmptyFile]]
NothingSaved == [q \in {} |-> Unset]
Idle == [pc |-> "idle"]

----------------------------------------------------------------------------
(* SpecMS: mean_subtract applied to an object that has data, Nbls and order *)

InitMS ==
    \E kind \in {"masked", "nomask", "ndarray"}, n \in 0..MaxN, order \in 0..MaxOrder, e \in Envs :
      \E colA, colB \in (IF kind = "masked" THEN Columns ELSE UnmaskedColumns) :
        /\ obj = [NoAttrs EXCEPT !.data = Some(MkData(kind, colA, colB)),
                                 !.Nbls = Some(MkCounts(n, n)),
                                 !.order = Some(order)]
        /\ env = e
        /\ fs = NoFiles
        /\ saved = NothingSaved
        /\ last = NoCall
        /\ script = Idle

ApplyMeanSubtract ==
    /\ last.op = "none"
    /\ LET out == MeanSubtract(obj, env)
       IN last' = [NoCall EXCEPT !.op = "mean_subtract", !.n = 1, !.raised = out.raised,
                                 !.ms = Some(out)]
    /\ UNCHANGED <<env, obj, fs, saved, script>>

NextMS == ApplyMeanSubtract

SpecMS == InitMS /\ [][NextMS]_vars

----------------------------------------------------------------------------
(* Spec: an INS object after its constructor returned, under calls of mean_subtract, *)
(* save and _read                                                                  *)

\* The data of the objects constructed: every channel constant over time, or with its
\* first sample masked, or masked at all times
ObjColumns ==
    {[t \in Times |-> v] : v \in 0..MaxVal}
      \cup {[t \in Times |-> IF t = 1 THEN -1 ELSE v] : v \in 0..MaxVal}
      \cup {[t \in Times |-> -1]}

AnEvent == <<1, 1, "TV6">>
EventLists == {<<>>, <<AnEvent>>}

\* The attributes an INS has before line 64.  INS.__init__ assigns none of the
\* attributes save reads: an object has them when UVFlag.__init__ or a collaborator
\* (the match filter, for the event lists) has assigned them.  events and products say
\* which of them this object has.
BaseObject(col, type, events, products) ==
    LET plain == [NoAttrs EXCEPT !.data = Some(MkData("masked", col, col)),
                                 !.Nbls = Some(MkCounts(MaxN, MaxN)),
                                 !.freq_array = Some(Mk1D(<<100, 200>>)),
                                 !.type = Some(type),
                                 !.outpath = Some("out"),
                                 !.obs = Some("obs1"),
                                 !.flag_choice = Some("orig")]
        evented == IF Len(events) = 0 THEN plain
                   ELSE [plain EXCEPT !.match_events = Some(events[1]),
                                      !.chisq_events = Some(events[2]),
                                      !.samp_thresh_events = Some(events[3])]
    IN IF products
       THEN [evented EXCEPT !.data_ms = Some(ZerosLike(MkData("masked", col, col))),
                            !.counts = Some(Mk1D(<<3, 1>>)),
                            !.bins = Some(Mk1D(<<0, 1, 2>>))]
       ELSE evented

BaseObjects ==
    {BaseObject(col, ty, <<>>, FALSE) : col \in ObjColumns, ty \in {"waterfall", "baseline"}}
      \cup {BaseObject(col, "waterfall", ev, FALSE) :
              col \in ObjColumns, ev \in EventLists \X EventLists \X EventLists}
      \cup {BaseObject(col, "waterfall", ev, TRUE) :
              col \in ObjColumns, ev \in {<<<<>>, <<>>, <<>>>>, <<<<AnEvent>>, <<>>, <<AnEvent>>>>}}

\* The files _read is pointed at that save did not write
ExtData == MkData("masked", [t \in Times |-> IF t = NT THEN -1 ELSE MaxVal],
                            [t \in Times |-> MaxVal])
ExtPlain == MkData("nomask", [t \in Times |-> MaxVal], [t \in Times |-> 0])

InitFiles ==
    [dirs |-> {"in"},
     files |->
       [q \in {"in/data_masked.npym", "in/data_nomask.npym", "in/data.npy", "in/Nbls.npym",
               "in/freq_array.npy", "in/pols.npy", "in/vis_units.npy"} |->
          CASE q = "in/data_masked.npym" -> PickleDump(ExtData)
            [] q = "in/data_nomask.npym" -> [PickleDump(ExtPlain) EXCEPT !.kind = "nomask"]
            [] q = "in/data.npy" -> NpSave(ExtPlain)
            [] q = "in/Nbls.npym" -> PickleDump(MkCounts(0, MaxN))
            [] q = "in/freq_array.npy" -> NpSave(Mk1D(<<150, 250>>))
            [] q = "in/pols.npy" -> NpSave(Mk1D(<<"XX">>))
            [] q = "in/vis_units.npy" -> NpSave(Mk1D(<<"Jy">>))]]

ExtPaths(dataFile) ==
    [k \in {"data", "Nbls", "freq_array", "pols", "vis_units"} |->
       CASE k = "data" -> dataFile
         [] k = "Nbls" -> "in/Nbls.npym"
         [] k = "freq_array" -> "in/freq_array.npy"
         [] k = "pols" -> "in/pols.npy"
         [] k = "vis_units" -> "in/vis_units.npy"]

\* The paths save(sig) writes these attributes to
SavedPaths(self, sig) ==
    [k \in {"data", "Nbls", "freq_array", "pols", "vis_units"} |->
       IF k \in {"data", "Nbls"} THEN ArrPath(self, k, SaveTag(self, sig), ".npym")
       ELSE MetaPath(self, k)]

HasEvents(self) == \A n \in 1..Len(SubTags) : IsSet(self[EventsAttr(SubTags[n])])

Sigs == {Unset, Some(SigDefault)}

FullPaths(self) ==
    {ExtPaths(f) : f \in {"in/data_masked.npym", "in/data_nomask.npym", "in/data.npy"}}
      \cup (IF HasEvents(self) THEN {SavedPaths(self, sig) : sig \in Sigs} ELSE {})

\* read_paths: all five keys, or all but one, or all but the two optional ones (the
\* first required key that is missing ends _read, whatever else is missing)
AllKeys == {"data", "Nbls", "freq_array", "pols", "vis_units"}
KeySets == {AllKeys} \cup {AllKeys \ {k} : k \in AllKeys} \cup {AllKeys \ {"pols", "vis_units"}}
ReadPaths(self) == {[k \in ks |-> full[k]] : full \in FullPaths(self), ks \in KeySets}

\* The objects whose construction returns.  same matters for an input of the type
\* 'baseline' only, and env for an order above 0 only (nothing else reads it).
Init ==
    \E base \in BaseObjects, order \in 0..MaxOrder, e \in Envs, same \in BOOLEAN :
      LET made == Construct(base, order, e, same)
      IN /\ Get(base.type) = "waterfall" => same
         /\ order = 0 => ~e.uniqueEmptyOk
         /\ made.raised = "none"
         /\ obj = made.self
         /\ env = e
         /\ fs = InitFiles
         /\ saved = NothingSaved
         /\ last = [NoCall EXCEPT !.op = "__init__", !.ms = Some(made.ms)]
         /\ script = Idle

MeanSubtractStep(budget) ==
    /\ last.n < budget
    /\ LET out == MeanSubtract(obj, env)
       IN last' = [NoCall EXCEPT !.op = "mean_subtract", !.n = last.n + 1,
                                 !.raised = out.raised, !.ms = Some(out)]
    /\ UNCHANGED <<env, obj, fs, saved, script>>

SaveStep(budget) ==
    /\ last.n < budget
    /\ \E sig \in Sigs :
         LET run == SaveRun(obj, fs, saved, sig)
         IN /\ fs' = run.fs
            /\ saved' = run.saved
            /\ last' = [NoCall EXCEPT !.op = "save", !.n = last.n + 1, !.raised = run.raised,
                                      !.sig = sig, !.tag = run.tag, !.written = run.written]
    /\ UNCHANGED <<env, obj, script>>

ReadStep(budget, pathSets) ==
    /\ last.n < budget
    /\ \E rp \in pathSets :
         LET run == ReadRun(obj, fs, rp)
         IN /\ obj' = run.self
            /\ last' = [NoCall EXCEPT !.op = "_read", !.n = last.n + 1, !.raised = run.raised,
                                      !.paths = rp, !.warned = run.warned,
                                      !.assigned = run.assigned]
    /\ UNCHANGED <<env, fs, saved, script>>

CallMeanSubtract == MeanSubtractStep(MaxCalls)
CallSave == SaveStep(MaxCalls)
CallRead == ReadStep(MaxCalls, ReadPaths(obj))

Next == CallMeanSubtract \/ CallSave \/ CallRead

Spec == Init /\ [][Next]_vars

----------------------------------------------------------------------------
(* SpecRoundTrip: the objects that have everything save reads, under calls of save *)
(* and of _read with all the required keys                                       *)

InitRoundTrip ==
    \E base \in {b \in BaseObjects : IsSet(b.data_ms)} :
      LET made == Construct(base, 0, [uniqueEmptyOk |-> FALSE], TRUE)
      IN /\ obj = made.self
         /\ env = [uniqueEmptyOk |-> FALSE]
         /\ fs = InitFiles
         /\ saved = NothingSaved
         /\ last = [NoCall EXCEPT !.op = "__init__", !.ms = Some(made.ms)]
         /\ script = Idle

RoundTripPaths(self) ==
    {[k \in ks |-> full[k]] :
        full \in {ExtPaths("in/data_masked.npym")} \cup {SavedPaths(self, sig) : sig \in Sigs},
        ks \in {AllKeys, AllKeys \ {"pols", "vis_units"}}}

SaveProducts == SaveStep(MaxTripCalls)
ReadBack == ReadStep(MaxTripCalls, RoundTripPaths(obj))

NextRoundTrip == SaveProducts \/ ReadBack

SpecRoundTrip == InitRoundTrip /\ [][NextRoundTrip]_vars

----------------------------------------------------------------------------
(* SpecScript: Event_Brightness.py, one pass of the loop over obslist (lines 41-56) *)

\* An event of ins.match_events is (time index, channel index, shape name): event[:-1]
\* indexes ins.data.data, event[0] is its time index and event[-1] its shape
ShapeNames == {"TV6", "TV7", "TV8", "broad6", "broad7", "broad8", "streak"}
EventSet == Times \X Chans \X ShapeNames
ArgsShapes == <<"TV6", "TV7", "TV8", "streak">>

\* ins.data.data, the values under the mask
ScriptData == [ix \in Times \X Chans |-> ix[1] + NT * (ix[2] - 1)]

\* chan = shape[-1]
LastChar(shape) ==
    CASE shape \in {"TV6", "broad6"} -> "6"
      [] shape \in {"TV7", "broad7"} -> "7"
      [] shape \in {"TV8", "broad8"} -> "8"
      [] shape = "streak" -> "k"

\* event[:-1] and its comparison with a str: a tuple is never equal to a str
ButLast(event) == <<event[1], event[2]>>
TupleEqStr(tup, str) == FALSE

\* [event[:-1] for event in events]
ButLasts(events) == [n \in 1..Len(events) |-> ButLast(events[n])]

\* list.remove(x): the first element equal to x
RECURSIVE Remove(_, _)
Remove(seq, x) ==
    IF seq = <<>> THEN <<>>
    ELSE IF Head(seq) = x THEN Tail(seq)
         ELSE <<Head(seq)>> \o Remove(Tail(seq), x)

RECURSIVE RemoveAll(_, _)
RemoveAll(seq, xs) == IF xs = <<>> THEN seq ELSE RemoveAll(Remove(seq, Head(xs)), Tail(xs))

RECURSIVE SumOver(_, _)
SumOver(events, data) ==
    IF events = <<>> THEN 0 ELSE data[Head(events)] + SumOver(Tail(events), data)

\* Line 46: the events compared are event[:-1], tuples, and the other side is a str
BroadEvents(match_events, chan) ==
    LET IsBroad(event) == TupleEqStr(ButLast(event), "broad" \o chan)
    IN ButLasts(SelectSeq(match_events, IsBroad))

\* Lines 42-55 for one shape
ShapeSum(match_events, data, shape) ==
    LET OfShape(event) == event[3] = shape
        events == ButLasts(SelectSeq(match_events, OfShape))
        chan == LastChar(shape)
        broad_events == BroadEvents(match_events, chan)
        broad_events_times == [n \in 1..Len(broad_events) |-> broad_events[n][1]]
        AtBroadTime(event) == \E n \in 1..Len(broad_events_times) : broad_events_times[n] = event[1]
        event_remove == SelectSeq(events, AtBroadTime)
        kept == IF shape \in {"TV6", "TV7", "TV8"} THEN RemoveAll(events, event_remove) ELSE events
    IN SumOver(kept, data)

RECURSIVE SeqsUpTo(_, _)
SeqsUpTo(S, n) ==
    IF n = 0 THEN {<<>>}
    ELSE LET shorter == SeqsUpTo(S, n - 1)
         IN shorter \cup {Append(q, x) : q \in shorter, x \in S}

\* The state at line 41: ins and its match_events as lines 36-40 left them
InitScript ==
    \E o \in 1..NObs, evs \in SeqsUpTo(EventSet, MaxEvents) :
        /\ script = [pc |-> "shapes", obs |-> o, match_events |-> evs, data |-> ScriptData,
                     i |-> 1, bright_dict |-> [sh \in {} |-> 0]]
        /\ env = [uniqueEmptyOk |-> FALSE]
        /\ obj = NoAttrs
        /\ fs = NoFiles
        /\ saved = NothingSaved
        /\ last = NoCall

\* for shape in args.shapes: lines 41-56; bright_dict[args.sig][shape][obs] = sum
ProcessShape ==
    /\ script.pc = "shapes"
    /\ script.i <= Len(ArgsShapes)
    /\ LET shape == ArgsShapes[script.i]
           total == ShapeSum(script.match_events, script.data, shape)
       IN script' = [script EXCEPT
                       !.bright_dict = [sh \in DOMAIN @ \cup {shape} |->
                                          IF sh = shape THEN total ELSE @[sh]],
                       !.i = @ + 1]
    /\ UNCHANGED <<env, obj, fs, saved, last>>

\* Lines 57-61, after the last observation: pickle.dump(bright_dict, file)
DumpBrightDict ==
    /\ script.pc = "shapes"
    /\ script.i > Len(ArgsShapes)
    /\ script' = [script EXCEPT !.pc = "done"]
    /\ fs' = WriteFile(fs, "outdir/bright_dict.pik",
                       [fmt |-> "pickle", kind |-> "dict", val |-> script.bright_dict,
                        mask |-> <<>>])
    /\ UNCHANGED <<env, obj, saved, last>>

NextScript == ProcessShape \/ DumpBrightDict

SpecScript == InitScript /\ [][NextScript]_vars

----------------------------------------------------------------------------
(* Claims about mean_subtract (SpecMS) *)

MSCalled == last.op = "mean_subtract"
MSReturned == MSCalled /\ last.raised = "none"
MSOut == Get(last.ms)
MSRet == Get(MSOut.ret)
Data == Get(obj.data)
Counts == Get(obj.Nbls)
Order == Get(obj.order)
ChanIdx(f, p) == {ix \in Idx : ix[2] = f /\ ix[3] = p}
ConstantChan(f, p) ==
    /\ \A ix \in ChanIdx(f, p) : ~Data.mask[ix]
    /\ \A ix, iy \in ChanIdx(f, p) : Data.val[ix] = Data.val[iy]

\* C2: for every fit order, the array mean_subtract returns is masked wherever data is
\* masked.
C2_MaskSuperset ==
    MSReturned => \A ix \in Idx : Data.mask[ix] => MSRet.mask[ix]

\* C2 witness: at order 0, a channel with a masked and an unmasked sample; the returned
\* array is masked at the first and holds a value at the second.
C2_Witness ==
    /\ MSReturned
    /\ Order = 0
    /\ \E ix, iy \in Idx : /\ ix[2] = iy[2] /\ ix[3] = iy[3]
                           /\ Data.mask[ix] /\ MSRet.mask[ix]
                           /\ ~Data.mask[iy] /\ ~MSRet.mask[iy]

\* -1 * sqrt(n / C), the value the description gives for a constant channel
MinusSqrt(n) == IF n = 0 THEN Zero ELSE [sgn |-> -1, num |-> n, den |-> 1]

\* C3 as stated: at order 0, every element of an unmasked channel that is constant over
\* time is -1 * sqrt(countArray / C).
C3_Original ==
    (MSReturned /\ Order = 0) =>
        \A f \in Chans, p \in Pols :
            ConstantChan(f, p) =>
                \A ix \in ChanIdx(f, p) : MSRet.val[ix] = MinusSqrt(Counts.val[ix])

\* C3 as amended: at order 0, every element of an unmasked channel that is constant over
\* time at a value other than 0 is 0: data / channelMean - 1 is 0 there, whatever
\* countArray is.
C3_ConstantChannelIsZero ==
    (MSReturned /\ Order = 0) =>
        \A f \in Chans, p \in Pols :
            (ConstantChan(f, p) /\ \E ix \in ChanIdx(f, p) : Data.val[ix] # 0) =>
                \A ix \in ChanIdx(f, p) : ~MSRet.mask[ix] /\ MSRet.val[ix] = Zero

\* C3 witness: order 0, a constant unmasked channel at a value other than 0 with a
\* count above 0, beside a channel that is not constant.
C3_Witness ==
    /\ MSReturned
    /\ Order = 0
    /\ \E f \in Chans, p \in Pols :
         /\ ConstantChan(f, p)
         /\ \A ix \in ChanIdx(f, p) : Data.val[ix] # 0 /\ Counts.val[ix] > 0
    /\ \E ix \in Idx : ~MSRet.mask[ix] /\ MSRet.val[ix] # Zero

GoodSet(p) == {f \in Chans : \E t \in Times : ~Data.mask[<<t, f, p>>]}

\* C6: at an order above 0, mean_subtract returns without raising; a channel masked at
\* all times is fully masked in the array returned and not written by the fit, and every
\* other channel receives its (data / mu - 1) * sqrt(countArray / C).
C6_OrderNReturns ==
    (MSCalled /\ Order > 0 /\ Data.kind = "masked") =>
        /\ last.raised = "none"
        /\ \A p \in Pols, f \in Chans :
             IF f \in GoodSet(p)
             THEN MSOut.writes[<<f, p>>] > 0
             ELSE /\ MSOut.writes[<<f, p>>] = 0
                  /\ \A ix \in ChanIdx(f, p) : MSRet.mask[ix]

\* The parts of C10, for each polarization the loop of lines 102-121 entered.
GroupOf(entry, k) == {entry.good_chans[j] : j \in {i \in 1..Len(entry.good_chans) : entry.mask_inv[i] = k}}

C10_Partition ==
    (MSCalled /\ Order > 0 /\ Data.kind = "masked") =>
        \A n \in 1..Len(MSOut.trace) :
            LET entry == MSOut.trace[n]
            IN \A f \in Chans :
                 Cardinality({k \in 1..Len(entry.unique_masks) : f \in GroupOf(entry, k)})
                   = IF f \in GoodSet(entry.pol) THEN 1 ELSE 0

C10_SameMask ==
    (MSCalled /\ Order > 0 /\ Data.kind = "masked") =>
        \A n \in 1..Len(MSOut.trace) :
            LET entry == MSOut.trace[n]
            IN \A k \in 1..Len(entry.unique_masks) :
                 \A f \in GroupOf(entry, k) : ColMask(Data, f, entry.pol) = entry.unique_masks[k]

C10_SameMu ==
    (MSCalled /\ Order > 0 /\ Data.kind = "masked") =>
        \A n \in 1..Len(MSOut.trace) :
            LET entry == MSOut.trace[n]
            IN \A m \in 1..Len(entry.fits) :
                 \A j \in DOMAIN entry.fits[m] :
                     entry.fits[m][j] = PolyFit(Data, entry.pol, entry.good_chans, {j}, Order)[j]

C10_WrittenOnce ==
    (MSCalled /\ Order > 0 /\ Data.kind = "masked") =>
        \A p \in Pols : \A f \in GoodSet(p) : MSOut.writes[<<f, p>>] = 1

\* C10: at an order above 0 and for each polarization, the mask groups partition the good
\* channels, the channels of a group share one mask over time, each good channel's output
\* is written exactly once, and fitting a group together gives each channel the mu that
\* fitting it alone gives.
C10_GroupedFit ==
    /\ C10_Partition
    /\ C10_SameMask
    /\ C10_SameMu
    /\ C10_WrittenOnce

----------------------------------------------------------------------------
(* Claims about the object (Spec, SpecRoundTrip) *)

SameArray(a, b) == a.val = b.val /\ a.mask = b.mask

\* C1: in every state after the constructor returned, the stored mean-subtracted array is
\* what the mean-subtraction procedure gives for the object's current data, Nbls and
\* order.
C1_StoredIsCurrent ==
    LET now == MeanSubtract(obj, env)
    IN now.raised = "none" => SameArray(Get(obj.metric_ms), Get(now.ret))

ExpectedTag(self, sig) ==
    (IF IsSet(sig) THEN "_" \o ToString(Get(sig)) ELSE "")
      \o (IF Get(self.match_events) # <<>> THEN "_match" ELSE "")
      \o (IF Get(self.chisq_events) # <<>> THEN "_chisq" ELSE "")
      \o (IF Get(self.samp_thresh_events) # <<>> THEN "_samp_thresh" ELSE "")

\* The tag and the directories of C9 alone, where the object has the three event lists.
C9_TagAndDirs ==
    (last.op = "save" /\ HasEvents(obj)) =>
        /\ last.tag = ExpectedTag(obj, last.sig)
        /\ {"out/arrs", "out/metadata"} \subseteq fs.dirs
        /\ "out/arrs/obs1_orig_INS_data" \o last.tag \o ".npym" \in DOMAIN fs.files

\* C9: save(sig_thresh) completes for any object the constructor produced, creates the
\* arrs and metadata directories, and writes data, data_ms and Nbls under arrs with the
\* tag '_<sig_thresh>' (if given) then '_match', '_chisq', '_samp_thresh' for each event
\* list that is not empty.
C9_SaveCompletes ==
    last.op = "save" =>
        /\ last.raised = "none"
        /\ {"out/arrs", "out/metadata"} \subseteq fs.dirs
        /\ \A attr \in {"data", "data_ms", "Nbls"} :
             LET path == "out/arrs/obs1_orig_INS_" \o attr \o ExpectedTag(obj, last.sig) \o ".npym"
             IN path \in last.written /\ fs.files[path] = PickleDump(Get(obj[attr]))

Loadable(rp) == \A k \in DOMAIN rp : NpLoadRaises(fs, rp[k]) = "none"
RequiredSet == {"data", "Nbls", "freq_array"}
OptionalSet == {"pols", "vis_units"}

\* C4: _read fails with an assertion error when a required key is missing from
\* read_paths; with the required keys present and an optional key missing it completes,
\* warns about that key and does not set that attribute.  (Stated for read_paths whose
\* files np.load can load.)
C4_ReadKeys ==
    last.op = "_read" =>
        /\ (~(RequiredSet \subseteq DOMAIN last.paths) /\ Loadable(last.paths)) =>
             last.raised = "AssertionError"
        /\ (RequiredSet \subseteq DOMAIN last.paths /\ Loadable(last.paths)) =>
             /\ last.raised = "none"
             /\ \A k \in OptionalSet \ DOMAIN last.paths :
                  k \in last.warned /\ k \notin last.assigned

\* The first half of C4 alone.
C4_MissingRequiredAsserts ==
    (last.op = "_read" /\ ~(RequiredSet \subseteq DOMAIN last.paths) /\ Loadable(last.paths)) =>
        last.raised = "AssertionError"

\* C5: when the data _read loads carries no mask (its mask is nomask, of shape ()), _read
\* completes and the object's data has an all-false mask array of the shape of data.
C5_MaskSynthesised ==
    (/\ last.op = "_read"
     /\ RequiredSet \subseteq DOMAIN last.paths
     /\ Loadable(last.paths)
     /\ fs.files[last.paths["data"]].kind = "nomask") =>
        /\ last.raised = "none"
        /\ Get(obj.data).kind = "masked"
        /\ Get(obj.data).mask = [ix \in Idx |-> FALSE]

FromSave(k) ==
    /\ last.op = "_read"
    /\ k \in last.assigned
    /\ last.paths[k] \in DOMAIN saved
    /\ IsSet(saved[last.paths[k]])

\* C7: after save, _read of the files save wrote for data, Nbls and freq_array leaves the
\* object with data, Nbls and freq_array equal, in values and mask, to what was saved.
C7_RoundTrip ==
    \A k \in RequiredSet :
        FromSave(k) => SameArray(Get(obj[k]), Get(saved[last.paths[k]]))

\* C7 witness: a save that completed, then a _read of other files, then a _read of the
\* files of the save that returned, with samples of data masked and others not.
C7_Witness ==
    /\ last.op = "_read" /\ last.raised = "none" /\ last.n = 3
    /\ \A k \in RequiredSet : FromSave(k)
    /\ \E ix, iy \in Idx : Get(obj.data).mask[ix] /\ ~Get(obj.data).mask[iy]

----------------------------------------------------------------------------
(* Claim about the aggregation script (SpecScript) *)

\* The sum C8 describes: for TV6, TV7 and TV8 the events of the shape whose time index
\* is that of no match event of the shape 'broad' + the shape's last character; for any
\* other shape all the events of the shape.
DescribedSum(match_events, data, shape) ==
    LET OfShape(event) == event[3] = shape
        IsBroad(event) == event[3] = "broad" \o LastChar(shape)
        NotAtBroadTime(event) ==
            ~\E n \in 1..Len(match_events) :
                IsBroad(match_events[n]) /\ match_events[n][1] = event[1]
        Counted(event) ==
            OfShape(event) /\ (shape \in {"TV6", "TV7", "TV8"} => NotAtBroadTime(event))
    IN SumOver(ButLasts(SelectSeq(match_events, Counted)), data)

\* C8: for every observation and requested shape, bright_dict[sig][shape][obs] is the sum
\* of data over the events of that shape, leaving out, for TV6, TV7 and TV8, the events at
\* the time index of a match event of the corresponding broad shape.
C8_BroadExcluded ==
    \A shape \in DOMAIN script.bright_dict :
        script.bright_dict[shape] = DescribedSum(script.match_events, script.data, shape)

====
